---- MODULE Spec2Model ----
(***************************************************************************)
(* State-machine model of PoshBackend.py: the POSH training API.           *)
(*                                                                         *)
(* The users collection is a sequence of documents in insertion (natural)  *)
(* order; find_one / update_one act on the first document that matches.    *)
(* Time is an integer clock counted in minutes, so that                    *)
(* (end - start).total_seconds() / 60 is the difference of two readings.   *)
(* Strings that the code inspects (emails) are sequences of characters.    *)
(* An optional value (None, or a field the document does not hold) is the  *)
(* empty sequence, a present value v is <<v>>.                             *)
(***************************************************************************)
EXTENDS Integers, Sequences, FiniteSets, Bags, TLC

\* ------------------------------------------------------------------ bounds
\* Requests served in one behaviour.
MaxOps == 4
\* Requests served in one behaviour of a single user's slide viewing.
MaxSlideCalls == 7

\* ------------------------------------------------------- program constants
ACCESS_TOKEN_EXPIRE_MINUTES == 30

None == <<>>
Some(v) == <<v>>
IsSome(o) == o # <<>>
Get(o) == o[1]

\* ------------------------------------------------------------- characters
LowerLetters == {"a", "b", "c", "e", "i", "o"}
UpperLetters == {"A", "B", "C", "E", "I", "O"}
Letters == LowerLetters \cup UpperLetters
Digits == {"0", "1"}

\* str.lower() on one character
LowerChar(c) ==
    CASE c = "A" -> "a"
      [] c = "B" -> "b"
      [] c = "C" -> "c"
      [] c = "E" -> "e"
      [] c = "I" -> "i"
      [] c = "O" -> "o"
      [] OTHER -> c

\* str.lower()
Lower(s) == [k \in 1..Len(s) |-> LowerChar(s[k])]

\* The inputs presented as the email form field.
EmailA == <<"a", "@", "c", ".", "i", "o">>
EmailAUpper == <<"A", "@", "c", ".", "i", "o">>
EmailB == <<"b", "@", "c", ".", "i", "o">>
EmailOutside == <<"e", "@", "c", ".", "i", "o">>
EmailShortTld == <<"a", "@", "c", ".", "i">>
EmailInputs == {EmailA, EmailAUpper, EmailOutside, EmailShortTld}

\* The authorized_emails collection: provisioned out of band, lowercase keys.
authorized_emails_collection ==
    {[email |-> EmailA, name |-> "Alice"], [email |-> EmailB, name |-> "Bob"]}

\* The readings of the clock: a minute apart, and a token lifetime and more apart.
Instants == {0, 1, ACCESS_TOKEN_EXPIRE_MINUTES + 1}

SlideIds == {1, 2}
Scores == {1, 2}
Limits == {-1, 0, 1, 2}

\* ------------------------------------------------------ utility functions
\* re.match(r'^[a-zA-Z0-9._%+-]+@[a-zA-Z0-9.-]+\.[a-zA-Z]{2,}$', email):
\* '$' matches at the end of the string and before a final newline.
is_valid_email(email) ==
    LET n == IF Len(email) > 0 /\ email[Len(email)] = "\n"
             THEN Len(email) - 1 ELSE Len(email)
        LocalChars == Letters \cup Digits \cup {".", "_", "%", "+", "-"}
        DomainChars == Letters \cup Digits \cup {".", "-"}
    IN \E i \in 2..n : \E j \in (i + 2)..(n - 2) :
          /\ email[i] = "@"
          /\ email[j] = "."
          /\ \A k \in 1..(i - 1) : email[k] \in LocalChars
          /\ \A k \in (i + 1)..(j - 1) : email[k] \in DomainChars
          /\ \A k \in (j + 1)..n : email[k] \in Letters

\* authorized_emails_collection.find_one({"email": email.lower()})
is_email_authorized(email) ==
    LET hits == {c \in authorized_emails_collection : c.email = Lower(email)}
    IN IF hits # {}
       THEN [is_authorized |-> TRUE, name |-> (CHOOSE c \in hits : TRUE).name]
       ELSE [is_authorized |-> FALSE, name |-> ""]

\* jwt.encode of data plus exp, signed with SECRET_KEY.  expires_delta is
\* None or Some(minutes); exp = utcnow() + expires_delta, and utcnow() + 15
\* minutes when expires_delta is falsy (None or a zero timedelta).
create_access_token(data, expires_delta, now) ==
    [email |-> Some(data.email),
     exp |-> IF IsSome(expires_delta) /\ Get(expires_delta) # 0
             THEN now + Get(expires_delta)
             ELSE now + 15,
     sig |-> "valid"]

\* Tokens nobody obtained from /auth: a bad signature (or a malformed string),
\* and a payload signed with the key that carries no email claim.
ForgedTokens ==
    {[email |-> Some(EmailA), exp |-> 2 * ACCESS_TOKEN_EXPIRE_MINUTES,
      sig |-> "invalid"]}
NoEmailTokens ==
    {[email |-> None, exp |-> 2 * ACCESS_TOKEN_EXPIRE_MINUTES,
      sig |-> "valid"]}

\* jwt.decode verifies the signature, then exp (expired when exp <= now);
\* then the payload must hold an email.  Any failure raises the 401.
\* get_current_user as it would be with the exp check left out of jwt.decode.
get_current_user_no_exp(credentials, now) ==
    IF credentials.sig # "valid" THEN [status |-> 401, email |-> <<>>]
    ELSE IF credentials.email = None THEN [status |-> 401, email |-> <<>>]
    ELSE [status |-> 200, email |-> Get(credentials.email)]

\* The result is TokenData(email) with status 200, or the raised status.
get_current_user(credentials, now) ==
    IF credentials.sig # "valid" THEN [status |-> 401, email |-> <<>>]
    ELSE IF credentials.exp <= now THEN [status |-> 401, email |-> <<>>]
    ELSE IF credentials.email = None THEN [status |-> 401, email |-> <<>>]
    ELSE [status |-> 200, email |-> Get(credentials.email)]

\* The error_code the exception handler puts in the body of an HTTPException.
custom_http_exception_handler(status_code) ==
    CASE status_code = 401 -> "UNAUTHORIZED"
      [] status_code = 404 -> "NOT_FOUND"
      [] OTHER -> "HTTP_" \o ToString(status_code)

\* ------------------------------------------------------- users collection
\* Positions of the documents matching {"email": email}, in natural order.
Matches(coll, email) == {k \in 1..Len(coll) : coll[k].email = email}

Min(S) == CHOOSE x \in S : \A y \in S : x <= y

\* users_collection.find_one({"email": email}): the first match, or None.
find_one(coll, email) ==
    IF Matches(coll, email) = {} THEN None
    ELSE Some(coll[Min(Matches(coll, email))])

\* update_one as it would be with an empty filter: the first document of the
\* collection gets the fields.
update_one_unfiltered(coll, email, fields) ==
    IF Len(coll) = 0 THEN coll
    ELSE [coll EXCEPT ![1] =
            [f \in DOMAIN coll[1] |->
               IF f \in DOMAIN fields THEN fields[f] ELSE coll[1][f]]]

\* users_collection.update_one({"email": email}, {"$set": fields}):
\* the first match gets the fields; no match, no change (no upsert).
update_one(coll, email, fields) ==
    IF Matches(coll, email) = {} THEN coll
    ELSE LET k == Min(Matches(coll, email))
         IN [coll EXCEPT ![k] =
               [f \in DOMAIN coll[k] |->
                  IF f \in DOMAIN fields THEN fields[f] ELSE coll[k][f]]]

\* insert_one as it would be if the document were stored under the lowercase
\* email while the token keeps the email as typed.
insert_one_lowercase(coll, doc) ==
    Append(coll, [doc EXCEPT !.email = Lower(doc.email)])

\* users_collection.insert_one(user)
insert_one(coll, doc) == Append(coll, doc)

\* The document /auth inserts; the fields later requests add start absent.
NewUser(user_id, email, name) ==
    [id |-> user_id, email |-> email, name |-> name,
     completed_slides |-> 0, total_login_time |-> 0, login_count |-> 1,
     status |-> "in_progress", start_time |-> None,
     current_slide |-> None, end_time |-> None, finished_at |-> None,
     quiz_score |-> None, quiz_time |-> None, quiz_date |-> None]

\* now.strftime("%H:%M:%S") and now.strftime("%Y-%m-%d") of a minute clock
StrfTime(now) == now % (24 * 60)
StrfDate(now) == now \div (24 * 60)

\* ------------------------------------------------------------------ state
VARIABLES
    users,      \* users_collection, in natural order
    issued,     \* the access tokens /auth has returned
    clock,      \* datetime.utcnow(), in minutes
    left,       \* requests still to be served in this behaviour
    resp,       \* the last request and its response
    inflight,   \* requests between their find_one and their write
    hist        \* history of the calls made, per email

vars == <<users, issued, clock, left, resp, inflight, hist>>

\* The requests that can be in progress at once are as many as the workers.
Workers == {1, 2}

\* The last request and the response it got.
Response(op, status_code, error_code, email, credentials, now, body) ==
    [op |-> op, status |-> status_code, error_code |-> error_code,
     email |-> email, credentials |-> credentials, at |-> now, body |-> body]

HTTPException(op, status_code, credentials, now) ==
    Response(op, status_code, custom_http_exception_handler(status_code),
             None, Some(credentials), now, <<>>)

\* ------------------------------------------------------------- POST /auth
\* auth_refusal as it would be with the allow-list check left out.
auth_refusal_format_only(email) ==
    IF ~is_valid_email(email) THEN "INVALID_EMAIL_FORMAT" ELSE ""

\* Lines 218-245: the two refusals, "" when the email passes both checks.
auth_refusal(email) ==
    IF ~is_valid_email(email) THEN "INVALID_EMAIL_FORMAT"
    ELSE IF ~is_email_authorized(email).is_authorized THEN "EMAIL_NOT_AUTHORIZED"
    ELSE ""

\* auth_login_count as it would be if a later login wrote the count it read.
auth_login_count_stale(user) ==
    IF IsSome(user) THEN Get(user).login_count ELSE 1

\* Lines 249-265: user is what find_one({"email": email}) returned.
auth_login_count(user) ==
    IF IsSome(user) THEN Get(user).login_count + 1 ELSE 1

\* auth_write as it would be if a later login also set the status afresh.
auth_write_reset(coll, user, email, name) ==
    IF IsSome(user)
    THEN update_one(coll, email, [login_count |-> Get(user).login_count + 1,
                                  status |-> "in_progress"])
    ELSE insert_one(coll, NewUser(Len(coll) + 1, email, name))

\* auth_write as it would be if a later login wrote back the whole document
\* it read, with the new count.
auth_write_whole(coll, user, email, name) ==
    IF IsSome(user)
    THEN update_one(coll, email,
                    [Get(user) EXCEPT !.login_count = auth_login_count(user)])
    ELSE insert_one(coll, NewUser(Len(coll) + 1, email, name))

auth_write(coll, user, email, name) ==
    IF IsSome(user)
    THEN update_one(coll, email, [login_count |-> auth_login_count(user)])
    ELSE insert_one(coll, NewUser(Len(coll) + 1, email, name))

\* The whole handler, given the document its find_one returned.
authenticate_user(coll, tokens, user, email, now) ==
    IF auth_refusal(email) # ""
    THEN [users |-> coll, issued |-> tokens,
          resp |-> Response("auth", 200, auth_refusal(email), Some(email),
                            None, now,
                            [error |-> TRUE, access_token |-> None])]
    ELSE LET name == is_email_authorized(email).name
             access_token == create_access_token(
                 [email |-> email], Some(ACCESS_TOKEN_EXPIRE_MINUTES), now)
         IN [users |-> auth_write(coll, user, email, name),
             issued |-> tokens \cup {access_token},
             resp |-> Response("auth", 200, "", Some(email), None, now,
                               [error |-> FALSE,
                                access_token |-> Some(access_token),
                                email |-> email,
                                login_count |-> auth_login_count(user),
                                user_name |-> name])]

\* ----------------------------------------------------- POST /progress/...
\* Each handler below runs after Depends(get_current_user) has returned
\* current_user; user is what its find_one({"email": current_user.email})
\* returned.
\* start_slide as it would be if it kept the start_time of an open interval.
start_slide_keep_open(coll, user, current_user, credentials, slide_id, now) ==
    IF ~IsSome(user)
    THEN [users |-> coll, resp |-> HTTPException("start", 404, credentials, now)]
    ELSE [users |-> update_one(coll, current_user.email,
                       [current_slide |-> Some(slide_id),
                        start_time |-> IF IsSome(Get(user).start_time)
                                       THEN Get(user).start_time
                                       ELSE Some(now)]),
          resp |-> Response("start", 200, "", Some(current_user.email),
                            Some(credentials), now, [slide_id |-> slide_id])]

start_slide(coll, user, current_user, credentials, slide_id, now) ==
    IF ~IsSome(user)
    THEN [users |-> coll, resp |-> HTTPException("start", 404, credentials, now)]
    ELSE [users |-> update_one(coll, current_user.email,
                       [current_slide |-> Some(slide_id),
                        start_time |-> Some(now)]),
          resp |-> Response("start", 200, "", Some(current_user.email),
                            Some(credentials), now, [slide_id |-> slide_id])]

\* Lines 309-313
login_time(user, end_time) ==
    IF IsSome(Get(user).start_time)
    THEN end_time - Get(Get(user).start_time)
    ELSE 0

\* completed_slides as it would be if the last slide ended were stored.
completed_slides_last(user, slide_id) == slide_id

\* Lines 318-322
completed_slides(user, slide_id) ==
    IF slide_id > Get(user).completed_slides
    THEN slide_id
    ELSE Get(user).completed_slides

end_slide(coll, user, current_user, credentials, slide_id, now) ==
    IF ~IsSome(user)
    THEN [users |-> coll, resp |-> HTTPException("end", 404, credentials, now)]
    ELSE LET total_time == Get(user).total_login_time + login_time(user, now)
         IN [users |-> update_one(coll, current_user.email,
                          [completed_slides |-> completed_slides(user, slide_id),
                           total_login_time |-> total_time,
                           end_time |-> Some(now)]),
             resp |-> Response("end", 200, "", Some(current_user.email),
                               Some(credentials), now,
                               [slide_id |-> slide_id,
                                total_time |-> total_time])]

\* finish_training as it would be if it also closed the open interval.
finish_training_close(coll, user, current_user, credentials, now) ==
    IF ~IsSome(user)
    THEN [users |-> coll, resp |-> HTTPException("finish", 404, credentials, now)]
    ELSE [users |-> update_one(coll, current_user.email,
                       [status |-> "completed", finished_at |-> Some(now),
                        current_slide |-> None, start_time |-> None]),
          resp |-> Response("finish", 200, "", Some(current_user.email),
                            Some(credentials), now, <<>>)]

finish_training(coll, user, current_user, credentials, now) ==
    IF ~IsSome(user)
    THEN [users |-> coll, resp |-> HTTPException("finish", 404, credentials, now)]
    ELSE [users |-> update_one(coll, current_user.email,
                       [status |-> "completed", finished_at |-> Some(now)]),
          resp |-> Response("finish", 200, "", Some(current_user.email),
                            Some(credentials), now, <<>>)]

\* GET /progress
get_progress(coll, user, current_user, credentials, now) ==
    IF ~IsSome(user)
    THEN [users |-> coll, resp |-> HTTPException("progress", 404, credentials, now)]
    ELSE [users |-> coll,
          resp |-> Response("progress", 200, "", Some(current_user.email),
                            Some(credentials), now,
                            [completed_slides |-> Get(user).completed_slides,
                             total_login_time |-> Get(user).total_login_time,
                             login_count |-> Get(user).login_count,
                             status |-> Get(user).status])]

\* ------------------------------------------------------------ quiz
\* submit_quiz_score as it would be if it kept the best score.
submit_quiz_score_keep_best(coll, current_user, credentials, score, now) ==
    LET user == find_one(coll, current_user.email)
        best == IF IsSome(user) /\ IsSome(Get(user).quiz_score)
                   /\ Get(Get(user).quiz_score) > score
                THEN Get(Get(user).quiz_score) ELSE score
    IN [users |-> update_one(coll, current_user.email,
                     [quiz_score |-> Some(best),
                      quiz_time |-> Some(StrfTime(now)),
                      quiz_date |-> Some(StrfDate(now))]),
        resp |-> Response("submit", 200, "", Some(current_user.email),
                          Some(credentials), now,
                          [score |-> score,
                           quiz_time |-> StrfTime(now),
                           quiz_date |-> StrfDate(now)])]

\* POST /quiz/submit: one update_one, no find_one before it.
submit_quiz_score(coll, current_user, credentials, score, now) ==
    [users |-> update_one(coll, current_user.email,
                  [quiz_score |-> Some(score),
                   quiz_time |-> Some(StrfTime(now)),
                   quiz_date |-> Some(StrfDate(now))]),
     resp |-> Response("submit", 200, "", Some(current_user.email),
                       Some(credentials), now,
                       [score |-> score,
                        quiz_time |-> StrfTime(now),
                        quiz_date |-> StrfDate(now)])]

\* GET /quiz/score
get_user_quiz_score(coll, user, current_user, credentials, now) ==
    IF ~IsSome(user)
    THEN [users |-> coll, resp |-> HTTPException("score", 404, credentials, now)]
    ELSE [users |-> coll,
          resp |-> Response("score", 200, "", Some(current_user.email),
                            Some(credentials), now,
                            [quiz_score |-> Get(user).quiz_score,
                             quiz_time |-> Get(user).quiz_time,
                             quiz_date |-> Get(user).quiz_date])]

\* The projection of /quiz/leaderboard.
LeaderboardEntry(doc) ==
    [email |-> doc.email, name |-> doc.name, quiz_score |-> doc.quiz_score,
     quiz_time |-> doc.quiz_time, quiz_date |-> doc.quiz_date]

\* find({"quiz_score": {"$exists": True}}).sort("quiz_score", -1): every order
\* of the matching documents that is descending by score (the order of
\* documents with equal scores is the store's choice).
SortedByScore(coll) ==
    LET having == {k \in 1..Len(coll) : IsSome(coll[k].quiz_score)}
        n == Cardinality(having)
    IN {[i \in 1..n |-> LeaderboardEntry(coll[p[i]])] :
          p \in {q \in [1..n -> having] :
                   /\ \A i, j \in 1..n : i # j => q[i] # q[j]
                   /\ \A i, j \in 1..n :
                        i < j => Get(coll[q[i]].quiz_score)
                                   >= Get(coll[q[j]].quiz_score)}}

\* cursor.limit(limit): 0 is no limit, a negative limit is its absolute value.
cursor_limit(docs, limit) ==
    IF limit = 0 THEN docs
    ELSE LET k == IF limit < 0 THEN -limit ELSE limit
         IN SubSeq(docs, 1, IF k < Len(docs) THEN k ELSE Len(docs))

\* GET /quiz/leaderboard: the lists the request may return.
get_quiz_leaderboard(coll, limit) ==
    {cursor_limit(docs, limit) : docs \in SortedByScore(coll)}

\* ---------------------------------------------------------------- history
\* What the calls made so far amount to, per email, kept beside the store so
\* that the store can be compared with it.
Max(a, b) == IF a >= b THEN a ELSE b

HistZero ==
    [authCalls |-> 0,      \* successful /auth calls
     endMax |-> 0,         \* largest slide_id ended
     open |-> None,        \* the start since the last end
     lost |-> FALSE,       \* a start replaced a start
     matched |-> 0,        \* sum of (end - start) over matched pairs
     paired |-> TRUE,      \* every end had a start since the end before it
     finishCalls |-> 0,    \* successful finish calls
     lastScore |-> None,   \* the most recent submit
     topScore |-> 0]       \* the largest score submitted

\* The history of the emails that have one; HistZero for the others.
HistInit == [e \in {} |-> HistZero]
At(h, e) == IF e \in DOMAIN h THEN h[e] ELSE HistZero
Put(h, e, v) == [x \in DOMAIN h \cup {e} |-> IF x = e THEN v ELSE h[x]]

Record(h, r) ==
    IF r.status # 200 \/ r.email = None THEN h
    ELSE LET e == Get(r.email)
             was == At(h, e)
         IN CASE r.op = "auth" /\ ~r.body.error ->
                   Put(h, e, [was EXCEPT !.authCalls = @ + 1])
              [] r.op = "start" ->
                   Put(h, e, [was EXCEPT !.open = Some(r.at),
                                         !.lost = @ \/ IsSome(was.open)])
              [] r.op = "end" ->
                   Put(h, e, [was EXCEPT
                                !.endMax = Max(@, r.body.slide_id),
                                !.matched = IF IsSome(was.open)
                                            THEN @ + (r.at - Get(was.open))
                                            ELSE @,
                                !.paired = @ /\ IsSome(was.open),
                                !.open = None])
              [] r.op = "finish" ->
                   Put(h, e, [was EXCEPT !.finishCalls = @ + 1])
              [] r.op = "submit" ->
                   Put(h, e, [was EXCEPT !.lastScore = Some(r.body.score),
                                         !.topScore = Max(@, r.body.score)])
              [] OTHER -> h

\* ---------------------------------------------------------------- actions
Init ==
    /\ users = <<>>
    /\ issued = {}
    /\ clock = 0
    /\ left = MaxOps
    /\ resp = Response("none", 0, "", None, None, 0, <<>>)
    /\ inflight = EmptyBag
    /\ hist = HistInit

\* The bearer tokens a client can send.
Presentable == issued \cup ForgedTokens \cup NoEmailTokens

\* A request served from its first line to its response.
Serve(r) ==
    /\ left > 0
    /\ left' = left - 1
    /\ users' = r.users
    /\ resp' = r.resp
    /\ hist' = Record(hist, r.resp)
    /\ UNCHANGED <<clock, inflight>>

Authenticate(email) ==
    LET r == authenticate_user(users, issued, find_one(users, email),
                               email, clock)
    IN Serve(r) /\ issued' = r.issued

AuthenticateUser == \E email \in EmailInputs : Authenticate(email)

\* Depends(get_current_user) raises: the endpoint's body is not entered, and
\* the response is the same whichever endpoint was asked for.
Unauthorized ==
    \E credentials \in Presentable :
        /\ get_current_user(credentials, clock).status # 200
        /\ Serve([users |-> users,
                  resp |-> HTTPException("depends",
                               get_current_user(credentials, clock).status,
                               credentials, clock)])
        /\ UNCHANGED issued

StartSlide ==
    \E credentials \in Presentable, slide_id \in SlideIds :
        LET current_user == get_current_user(credentials, clock)
        IN /\ current_user.status = 200
           /\ Serve(start_slide(users, find_one(users, current_user.email),
                                current_user, credentials, slide_id, clock))
           /\ UNCHANGED issued

EndSlide ==
    \E credentials \in Presentable, slide_id \in SlideIds :
        LET current_user == get_current_user(credentials, clock)
        IN /\ current_user.status = 200
           /\ Serve(end_slide(users, find_one(users, current_user.email),
                              current_user, credentials, slide_id, clock))
           /\ UNCHANGED issued

FinishTraining ==
    \E credentials \in Presentable :
        LET current_user == get_current_user(credentials, clock)
        IN /\ current_user.status = 200
           /\ Serve(finish_training(users, find_one(users, current_user.email),
                                    current_user, credentials, clock))
           /\ UNCHANGED issued

GetProgress ==
    \E credentials \in Presentable :
        LET current_user == get_current_user(credentials, clock)
        IN /\ current_user.status = 200
           /\ Serve(get_progress(users, find_one(users, current_user.email),
                                 current_user, credentials, clock))
           /\ UNCHANGED issued

SubmitQuizScore ==
    \E credentials \in Presentable, score \in Scores :
        LET current_user == get_current_user(credentials, clock)
        IN /\ current_user.status = 200
           /\ Serve(submit_quiz_score(users, current_user, credentials, score,
                                      clock))
           /\ UNCHANGED issued

GetUserQuizScore ==
    \E credentials \in Presentable :
        LET current_user == get_current_user(credentials, clock)
        IN /\ current_user.status = 200
           /\ Serve(get_user_quiz_score(users,
                        find_one(users, current_user.email),
                        current_user, credentials, clock))
           /\ UNCHANGED issued

GetQuizLeaderboard ==
    \E limit \in Limits : \E leaderboard \in get_quiz_leaderboard(users, limit) :
        /\ Serve([users |-> users,
                  resp |-> Response("leaderboard", 200, "", None, None, clock,
                                    [limit |-> limit,
                                     leaderboard |-> leaderboard])])
        /\ UNCHANGED issued

\* Time passes: the clock moves to a later reading.
Tick ==
    /\ \E t \in Instants : t > clock /\ clock' = t
    /\ UNCHANGED <<users, issued, left, resp, inflight, hist>>

Next ==
    \/ AuthenticateUser
    \/ Unauthorized
    \/ StartSlide
    \/ EndSlide
    \/ FinishTraining
    \/ GetProgress
    \/ SubmitQuizScore
    \/ GetUserQuizScore
    \/ GetQuizLeaderboard
    \/ Tick

\* Requests served one after another.
Spec == Init /\ [][Next]_vars

\* One user's slide viewing: EmailA logs in (again when the token has
\* expired) and starts and ends slides, one request after another.
SlideInit ==
    /\ users = <<>>
    /\ issued = {}
    /\ clock = 0
    /\ left = MaxSlideCalls
    /\ resp = Response("none", 0, "", None, None, 0, <<>>)
    /\ inflight = EmptyBag
    /\ hist = HistInit

Login == Authenticate(EmailA)

SlideNext ==
    \/ Login
    \/ StartSlide
    \/ EndSlide
    \/ Tick

SlideSpec == SlideInit /\ [][SlideNext]_vars

\* ------------------------------------------------- overlapping requests
\* A handler that reads with find_one and writes later is two steps: Begin
\* takes the request up to its find_one (and the clock reading that follows
\* it), Complete does its write and returns.  A request in progress holds what
\* its handler has in its local variables; inflight is the bag of them.
Request(op, email, credentials, user, arg, now) ==
    [op |-> op, email |-> email, credentials |-> credentials,
     user |-> user, arg |-> arg, at |-> now]

Begin(req) ==
    /\ left > 0
    /\ BagCardinality(inflight) < Cardinality(Workers)
    /\ left' = left - 1
    /\ inflight' = inflight (+) SetToBag({req})
    /\ UNCHANGED <<users, issued, clock, resp, hist>>

\* A response given without a write: the request never waits.
Reply(r) ==
    /\ left > 0
    /\ left' = left - 1
    /\ resp' = r
    /\ hist' = Record(hist, r)
    /\ UNCHANGED <<users, issued, clock, inflight>>

Complete(req, r) ==
    /\ inflight' = inflight (-) SetToBag({req})
    /\ users' = r.users
    /\ resp' = r.resp
    /\ hist' = Record(hist, r.resp)
    /\ UNCHANGED <<clock, left>>

\* A refused email is answered before any store access: one step, as in
\* AuthenticateUser.  An accepted one waits between find_one and its write.
BeginAuth ==
    \E email \in EmailInputs :
        /\ auth_refusal(email) = ""
        /\ Begin(Request("auth", email, None, find_one(users, email), 0, clock))

CompleteAuth ==
    \E req \in BagToSet(inflight) :
        /\ req.op = "auth"
        /\ LET r == authenticate_user(users, issued, req.user, req.email, clock)
           IN Complete(req, r) /\ issued' = r.issued

BeginStart ==
    \E credentials \in issued, slide_id \in SlideIds :
        LET current_user == get_current_user(credentials, clock)
            user == find_one(users, current_user.email)
        IN /\ current_user.status = 200
           /\ IF IsSome(user)
              THEN Begin(Request("start", current_user.email, Some(credentials),
                                 user, slide_id, clock))
              ELSE Reply(start_slide(users, user, current_user, credentials,
                                     slide_id, clock).resp)

CompleteStart ==
    \E req \in BagToSet(inflight) :
        /\ req.op = "start"
        /\ Complete(req, start_slide(users, req.user, [email |-> req.email],
                                     Get(req.credentials), req.arg, req.at))
        /\ UNCHANGED issued

BeginEnd ==
    \E credentials \in issued, slide_id \in SlideIds :
        LET current_user == get_current_user(credentials, clock)
            user == find_one(users, current_user.email)
        IN /\ current_user.status = 200
           /\ IF IsSome(user)
              THEN Begin(Request("end", current_user.email, Some(credentials),
                                 user, slide_id, clock))
              ELSE Reply(end_slide(users, user, current_user, credentials,
                                   slide_id, clock).resp)

CompleteEnd ==
    \E req \in BagToSet(inflight) :
        /\ req.op = "end"
        /\ Complete(req, end_slide(users, req.user, [email |-> req.email],
                                   Get(req.credentials), req.arg, req.at))
        /\ UNCHANGED issued

BeginFinish ==
    \E credentials \in issued :
        LET current_user == get_current_user(credentials, clock)
            user == find_one(users, current_user.email)
        IN /\ current_user.status = 200
           /\ IF IsSome(user)
              THEN Begin(Request("finish", current_user.email, Some(credentials),
                                 user, 0, clock))
              ELSE Reply(finish_training(users, user, current_user, credentials,
                                         clock).resp)

\* finished_at is datetime.utcnow() read while the arguments of update_one
\* are built, before the call is made: the reading the request took after its
\* find_one.
CompleteFinish ==
    \E req \in BagToSet(inflight) :
        /\ req.op = "finish"
        /\ Complete(req, finish_training(users, req.user, [email |-> req.email],
                                         Get(req.credentials), req.at))
        /\ UNCHANGED issued

\* /quiz/submit and /progress touch the store once: SubmitQuizScore and
\* GetProgress are single steps here too.
ConcNext ==
    \/ BeginAuth
    \/ CompleteAuth
    \/ BeginStart
    \/ CompleteStart
    \/ BeginEnd
    \/ CompleteEnd
    \/ BeginFinish
    \/ CompleteFinish
    \/ SubmitQuizScore
    \/ GetProgress

\* Requests served by workers that overlap, within one reading of the clock.
ConcSpec == Init /\ [][ConcNext]_vars

\* ================================================================= claims
\* The document find_one returns for an email, where there is one.
Doc(coll, email) == Get(find_one(coll, email))
HasDoc(coll, email) == IsSome(find_one(coll, email))

\* A step that served a request (every request takes one from left).
Served == left' # left

\* The history of an email.
Hist(e) == At(hist, e)

\* C1: the k-th successful authenticate(e) returns login_count = k and leaves
\* the stored login_count of e's record at k; before the first call there is
\* no record, and the first call creates it with login_count = 1.
C1_LoginCountIsCallCount ==
    /\ \A e \in EmailInputs :
          IF Hist(e).authCalls = 0
          THEN ~HasDoc(users, e)
          ELSE HasDoc(users, e)
               /\ Doc(users, e).login_count = Hist(e).authCalls
    /\ (resp.op = "auth" /\ ~resp.body.error) =>
          resp.body.login_count = Hist(Get(resp.email)).authCalls

C1_Witness ==
    /\ resp.op = "auth"
    /\ ~resp.body.error
    /\ resp.body.login_count = 3
    /\ Hist(Get(resp.email)).authCalls = 3

\* C2: the store holds at most one record per authorized identity, identities
\* compared without regard to letter case.
C2_OneRecordPerIdentity ==
    \A i, j \in 1..Len(users) :
        Lower(users[i].email) = Lower(users[j].email) => i = j

\* C3: completed_slides is the maximum of its value at creation (0) and the
\* slide_ids of the endSlide calls made since, whatever was called in between.
C3_CompletedSlidesIsMax ==
    \A e \in EmailInputs :
        HasDoc(users, e) => Doc(users, e).completed_slides = Hist(e).endMax

C3_Witness ==
    /\ resp.op = "end"
    /\ resp.status = 200
    /\ resp.body.slide_id = 1
    /\ Hist(Get(resp.email)).endMax = 2
    /\ Doc(users, Get(resp.email)).completed_slides = 2

\* C4: when every endSlide had a startSlide since the previous endSlide, the
\* total is the sum of (end - start) over the matched pairs, each end matched
\* with the latest start before it; a start replaced by a later start adds 0.
C4_TotalIsSumOfMatchedPairs ==
    \A e \in EmailInputs :
        (HasDoc(users, e) /\ Hist(e).paired) =>
            Doc(users, e).total_login_time = Hist(e).matched

C4_Witness ==
    /\ resp.op = "end"
    /\ resp.status = 200
    /\ Hist(EmailA).paired
    /\ Hist(EmailA).lost
    /\ Hist(EmailA).matched = ACCESS_TOKEN_EXPIRE_MINUTES
    /\ Doc(users, EmailA).total_login_time = ACCESS_TOKEN_EXPIRE_MINUTES

\* C5: an authenticate call whose email fails the syntax check or is not in
\* the credential store answers INVALID_EMAIL_FORMAT, respectively
\* EMAIL_NOT_AUTHORIZED, issues no token and leaves the user store as it was.
C5_RefusedAuthChangesNothing ==
    [][(Served /\ resp'.op = "auth") =>
          LET e == Get(resp'.email)
              listed == \E c \in authorized_emails_collection :
                            c.email = Lower(e)
          IN /\ ~is_valid_email(e) =>
                   /\ resp'.error_code = "INVALID_EMAIL_FORMAT"
                   /\ resp'.body.error
                   /\ resp'.body.access_token = None
                   /\ users' = users
                   /\ issued' = issued
             /\ (is_valid_email(e) /\ ~listed) =>
                   /\ resp'.error_code = "EMAIL_NOT_AUTHORIZED"
                   /\ resp'.body.error
                   /\ resp'.body.access_token = None
                   /\ users' = users
                   /\ issued' = issued]_vars

C5_Witness ==
    /\ resp.op = "auth"
    /\ resp.error_code = "EMAIL_NOT_AUTHORIZED"
    /\ resp.email = Some(EmailOutside)
    /\ Len(users) > 0
    /\ issued # {}

\* C6: a request that presents a token /auth did not issue, a token with no
\* email claim, or a token after its expiry gets the 401 UNAUTHORIZED
\* response and changes no record; a token /auth issued, presented before its
\* expiry, is accepted and the request runs as the email it was issued for.
C6_TokenGate ==
    [][(Served /\ IsSome(resp'.credentials)) =>
          LET token == Get(resp'.credentials)
              refused == \/ token \notin issued
                         \/ token.email = None
                         \/ clock > token.exp
              valid == token \in issued /\ clock < token.exp
          IN /\ refused => /\ resp'.status = 401
                           /\ resp'.error_code = "UNAUTHORIZED"
                           /\ users' = users
             /\ valid => /\ resp'.status = 200
                         /\ resp'.email = token.email]_vars

\* An issued token refused after its expiry, with records in the store.
C6_Witness ==
    /\ resp.status = 401
    /\ IsSome(resp.credentials)
    /\ Get(resp.credentials) \in issued
    /\ resp.at > Get(resp.credentials).exp
    /\ Len(users) > 0

\* C7: after finish the status is completed, and a finish of a user whose
\* status is already completed changes no field but finished_at.
C7_FinishIdempotent ==
    [][(Served /\ resp'.op = "finish" /\ resp'.status = 200) =>
          LET e == Get(resp'.email)
          IN /\ HasDoc(users, e)
             /\ Doc(users', e).status = "completed"
             /\ Doc(users, e).status = "completed" =>
                   Doc(users', e) =
                      [Doc(users, e) EXCEPT
                          !.finished_at = Doc(users', e).finished_at]]_vars

\* A second finish, later than the first, that moved finished_at.
C7_Witness ==
    /\ resp.op = "finish"
    /\ resp.status = 200
    /\ Hist(Get(resp.email)).finishCalls = 2
    /\ Doc(users, Get(resp.email)).status = "completed"
    /\ Doc(users, Get(resp.email)).finished_at = Some(1)

\* C8: a record whose status is completed stays completed in every later
\* state, so does the record an email's requests read, and /progress returns
\* the status of that record; requests may overlap.
C8_StatusMonotonic ==
    [][/\ \A k \in 1..Len(users) :
             users[k].status = "completed" =>
                 k <= Len(users') /\ users'[k].status = "completed"
       /\ \A e \in EmailInputs :
             (HasDoc(users, e) /\ Doc(users, e).status = "completed") =>
                 (HasDoc(users', e) /\ Doc(users', e).status = "completed")
       /\ \A k \in 1..Len(users') :
             users'[k].status \in {"in_progress", "completed"}
       /\ (Served /\ resp'.op = "progress" /\ resp'.status = 200) =>
             resp'.body.status = Doc(users, Get(resp'.email)).status]_vars

\* A user who finished has authenticated again and is still completed.
C8_Witness ==
    /\ resp.op = "auth"
    /\ ~resp.body.error
    /\ resp.body.login_count = 2
    /\ Hist(Get(resp.email)).finishCalls = 1
    /\ Doc(users, Get(resp.email)).status = "completed"

\* C9: the stored quiz_score of a record, and the quiz_score /quiz/score
\* returns, is the score of the most recent submit (None before any submit);
\* a submit changes the quiz fields of the record and nothing else.
C9_QuizScoreIsLastSubmit ==
    [][/\ \A e \in EmailInputs :
             HasDoc(users', e) =>
                 Doc(users', e).quiz_score = At(hist', e).lastScore
       /\ (Served /\ resp'.op = "score" /\ resp'.status = 200) =>
             resp'.body.quiz_score = Hist(Get(resp'.email)).lastScore
       /\ (Served /\ resp'.op = "submit") =>
             LET e == Get(resp'.email)
             IN /\ HasDoc(users, e)
                /\ Len(users') = Len(users)
                /\ \A k \in 1..Len(users) :
                      users'[k] =
                         IF users[k].email = e
                         THEN [users[k] EXCEPT
                                 !.quiz_score = Some(resp'.body.score),
                                 !.quiz_time = users'[k].quiz_time,
                                 !.quiz_date = users'[k].quiz_date]
                         ELSE users[k]]_vars

\* /quiz/score returns a last score lower than an earlier one.
C9_Witness ==
    /\ resp.op = "score"
    /\ resp.status = 200
    /\ resp.body.quiz_score = Some(1)
    /\ Hist(Get(resp.email)).topScore = 2

\* C10: for a limit k >= 0 the leaderboard holds only users with a score, is
\* in non-increasing order of score, and is no longer than k nor than the
\* number of users with a score.
C10_LeaderboardWithinLimit ==
    (resp.op = "leaderboard" /\ resp.body.limit >= 0) =>
        LET leaderboard == resp.body.leaderboard
            scored == {k \in 1..Len(users) : IsSome(users[k].quiz_score)}
        IN /\ Len(leaderboard) <= resp.body.limit
           /\ Len(leaderboard) <= Cardinality(scored)
           /\ \A i \in 1..Len(leaderboard) : IsSome(leaderboard[i].quiz_score)
           /\ \A i, j \in 1..Len(leaderboard) :
                 i < j => Get(leaderboard[i].quiz_score)
                            >= Get(leaderboard[j].quiz_score)

\* The requests of an operation that are between their find_one and their
\* write, for an email.
InFlight(op, e) == {req \in BagToSet(inflight) : req.op = op /\ req.email = e}

\* C11: no login is lost when /auth calls for an email that has a record
\* overlap.  A record starts at login_count = 1, written by a call that found
\* no record; every other successful call found one and is to add one.  So
\* once no /auth call for the email is in progress, login_count is 1 plus the
\* number of successful calls that found a record (the successful calls less
\* the records they inserted).
C11_NoLostLogin ==
    \A e \in EmailInputs :
        (HasDoc(users, e) /\ InFlight("auth", e) = {}) =>
            Doc(users, e).login_count =
                1 + (Hist(e).authCalls - Cardinality(Matches(users, e)))

\* C12: completed_slides of a record never decreases from one store state to
\* the next, and once no endSlide of an email is in progress it is at least
\* every slide_id ended so far; endSlide calls may overlap.
C12_CompletedSlidesNeverDecreases ==
    [][/\ \A k \in 1..Len(users) :
             /\ k <= Len(users')
             /\ users'[k].completed_slides >= users[k].completed_slides
       /\ \A e \in EmailInputs :
             (HasDoc(users', e)
              /\ {req \in BagToSet(inflight') :
                     req.op = "end" /\ req.email = e} = {}) =>
                 Doc(users', e).completed_slides >= At(hist', e).endMax]_vars

\* One user's slide viewing with requests that overlap while time passes:
\* EmailA logs in, and its startSlide and endSlide calls are served by workers
\* that may run between each other's find_one and update_one.
TimedNext ==
    \/ Login
    \/ BeginStart
    \/ CompleteStart
    \/ BeginEnd
    \/ CompleteEnd
    \/ Tick

TimedSpec == Init /\ [][TimedNext]_vars

\* C13: with a clock that never goes back, total_login_time of a record never
\* decreases from one store state to the next: no write stores a total smaller
\* than the one stored; startSlide and endSlide calls may overlap.
C13_TotalNeverDecreases ==
    [][\A k \in 1..Len(users) :
          /\ k <= Len(users')
          /\ users'[k].total_login_time >= users[k].total_login_time]_vars

\* C14: every stored record holds its email in lowercase, the form that was
\* matched against the credential store, and so does the email claim of every
\* token /auth has issued.
C14_StoredEmailIsLowercase ==
    /\ \A k \in 1..Len(users) : users[k].email = Lower(users[k].email)
    /\ \A t \in issued : Get(t.email) = Lower(Get(t.email))

\* C15: an /auth call whose find_one returned a record changes login_count of
\* that email's record and nothing else: no other field of it, no other
\* record, no record added; also when startSlide, endSlide, finish or submit
\* calls of the same user run between its find_one and its write.
C15_ReAuthChangesOnlyLoginCount ==
    [][\A req \in BagToSet(inflight) :
          (/\ req.op = "auth"
           /\ IsSome(req.user)
           /\ inflight' = inflight (-) SetToBag({req})) =>
              /\ Len(users') = Len(users)
              /\ \A k \in 1..Len(users) :
                    users'[k] =
                       IF k = Min(Matches(users, req.email))
                       THEN [users[k] EXCEPT
                               !.login_count = users'[k].login_count]
                       ELSE users[k]]_vars

\* A second login completed while an endSlide of the same user, begun before
\* the login's write, is still in progress; the user had started a slide.
C15_Witness ==
    /\ resp.op = "auth"
    /\ ~resp.body.error
    /\ resp.body.login_count = 2
    /\ Doc(users, Get(resp.email)).login_count = 2
    /\ IsSome(Doc(users, Get(resp.email)).start_time)
    /\ \E req \in InFlight("end", Get(resp.email)) :
          Get(req.user).login_count = 1

\* Two users, EmailA and EmailB, both in the credential store, whose requests
\* are served by workers that overlap.
BeginAuthPair ==
    \E email \in {EmailA, EmailB} :
        /\ auth_refusal(email) = ""
        /\ Begin(Request("auth", email, None, find_one(users, email), 0, clock))

PairNext ==
    \/ BeginAuthPair
    \/ CompleteAuth
    \/ BeginStart
    \/ CompleteStart
    \/ BeginEnd
    \/ CompleteEnd
    \/ BeginFinish
    \/ CompleteFinish
    \/ SubmitQuizScore

PairSpec == Init /\ [][PairNext]_vars

\* C16: a request made with one user's email or token (/auth, startSlide,
\* endSlide, finish, quiz submit) leaves the record of every other user as it
\* is: in every step, a record that changes belongs to the email the request
\* was made with, and no record is removed; requests of the users interleave.
C16_RecordsIndependent ==
    [][/\ Len(users') >= Len(users)
       /\ \A k \in 1..Len(users) :
             users'[k] # users[k] =>
                 /\ IsSome(resp'.email)
                 /\ users[k].email = Get(resp'.email)
                 /\ users'[k].email = users[k].email]_vars

\* EmailA's endSlide was served while EmailB has a record with progress of
\* its own, which is as EmailB's calls left it.
C16_Witness ==
    /\ resp.op = "end"
    /\ resp.status = 200
    /\ resp.email = Some(EmailA)
    /\ Doc(users, EmailA).completed_slides = 1
    /\ HasDoc(users, EmailB)
    /\ Doc(users, EmailB).completed_slides = 2
    /\ Hist(EmailB).endMax = 2

\* C17: for every token /auth has issued there is a record whose email is the
\* token's email claim, so no request made with an issued token is answered
\* 404 (user not found).
C17_TokenImpliesRecord ==
    /\ \A t \in issued : HasDoc(users, Get(t.email))
    /\ (IsSome(resp.credentials) /\ Get(resp.credentials) \in issued) =>
          resp.status # 404

\* /quiz/score answered for a token issued to an email typed in upper case.
C17_Witness ==
    /\ resp.op = "score"
    /\ resp.status = 200
    /\ Get(resp.credentials) \in issued
    /\ resp.email = Some(EmailAUpper)
    /\ Get(resp.credentials).email = Some(EmailAUpper)

\* C18: with requests served one after another and a clock that never goes
\* back, an endSlide with no startSlide since the endSlide before it (or
\* since the record was created) adds nothing to total_login_time: no
\* interval of viewing time is counted twice.
C18_NoDoubleCounting ==
    [][(Served /\ resp'.op = "end" /\ resp'.status = 200) =>
          LET e == Get(resp'.email)
          IN ~IsSome(Hist(e).open) =>
                Doc(users', e).total_login_time =
                    Doc(users, e).total_login_time]_vars

====
